---- MODULE Spec2Model ----
(***************************************************************************)
(* HonestLevy content script (src/unnamed/part_000, lines 1-386): the      *)
(* detection-and-replacement engine, its debounced scheduler and the       *)
(* settings/mapping bridge, together with the host page that mutates the   *)
(* DOM under it.                                                           *)
(***************************************************************************)
EXTENDS Integers, Sequences, FiniteSets, TLC

(***************************************************************************)
(* Bounds of the model.                                                    *)
(***************************************************************************)
\* number of host / browser events (DOM changes, notifications, scrolls,
\* navigations, storage changes) delivered in one behaviour
MaxEvents == 2
\* number of navigation rescan timers that may be pending at once
MaxNavTimers == 2

(***************************************************************************)
(* Strings are sequences of one-character strings, so that the regular     *)
(* expressions of extractVideoId can be matched position by position.      *)
(***************************************************************************)
IdLen == 11
ScanDelay == 100
ScrollDelay == 200
NavDelay == 500

Lower == {"a","b","c","d","e","f","g","h","i","j","k","l","m",
          "n","o","p","q","r","s","t","u","v","w","x","y","z"}
Upper == {"A","B","C","D","E","F","G","H","I","J","K","L","M",
          "N","O","P","Q","R","S","T","U","V","W","X","Y","Z"}
Digit == {"0","1","2","3","4","5","6","7","8","9"}
\* the character class [a-zA-Z0-9_-]
IdChars == Lower \cup Upper \cup Digit \cup {"_", "-"}

\* null / undefined / "" : every value v for which !v holds
NoUrl == << >>
\* the null returned by extractVideoId, and an absent Map entry
NoId == << >>

\* a literal piece of a pattern: one singleton class per character
Lit(s) == [i \in 1..Len(s) |-> {s[i]}]

\* the part of each pattern before its capture group, as character classes
Patterns ==
  << <<{"?", "&"}>> \o Lit(<<"v", "=">>),
     Lit(<<"y","o","u","t","u",".","b","e","/">>),
     Lit(<<"/","s","h","o","r","t","s","/">>),
     Lit(<<"/","e","m","b","e","d","/">>) >>

\* pattern pat followed by IdLen identifier characters matches url at position i
MatchesAt(url, pat, i) ==
  /\ i + Len(pat) + IdLen - 1 <= Len(url)
  /\ \A k \in 1..Len(pat) : url[i + k - 1] \in pat[k]
  /\ \A k \in 1..IdLen : url[i + Len(pat) + k - 1] \in IdChars

MatchPositions(url, pat) == {i \in 1..Len(url) : MatchesAt(url, pat, i)}

Min(S) == CHOOSE x \in S : \A y \in S : x <= y

\* url.match(pattern)[1] taken from the rightmost match instead of the leftmost
CaptureRightmost(url, pat) ==
  LET S == MatchPositions(url, pat)
      i == CHOOSE x \in S : \A y \in S : y <= x
  IN  SubSeq(url, i + Len(pat), i + Len(pat) + IdLen - 1)

\* url.match(pattern)[1]: the capture group of the leftmost match
Capture(url, pat) ==
  LET i == Min(MatchPositions(url, pat))
  IN  SubSeq(url, i + Len(pat), i + Len(pat) + IdLen - 1)

RECURSIVE FirstCapture(_, _)
FirstCapture(url, n) ==
  IF n > Len(Patterns) THEN NoId
  ELSE IF MatchPositions(url, Patterns[n]) # {} THEN Capture(url, Patterns[n])
  ELSE FirstCapture(url, n + 1)

extractVideoId(url) ==
  IF url = NoUrl THEN NoId ELSE FirstCapture(url, 1)

(***************************************************************************)
(* The values of the model.                                                *)
(***************************************************************************)
IdA == <<"a","b","c","E","F","g","h","i","J","K","L">>
IdB == <<"Z","9","_","-","q","R","s","T","u","V","0">>

Origin == <<"h","t","t","p","s",":","/","/","x">>
UrlWatchA == Origin \o <<"/","w","a","t","c","h","?","v","=">> \o IdA
UrlShortB == Origin \o <<"/","s","h","o","r","t","s","/">> \o IdB
UrlHome == Origin \o <<"/","f","e","e","d">>

\* link targets a card may carry, and addresses the page may have
CardUrls == {NoUrl, UrlWatchA, UrlShortB}
PageUrls == {UrlHome, UrlWatchA, UrlShortB}

Bait == "YOU WON'T BELIEVE THIS BLUNDER!!!"
CleanA == "Magnus Resigns After 3 Moves"
CleanA2 == "Carlsen Resigns After 3 Moves"
CleanB == "Levy Reviews A Subscriber Game"

\* titles the host renders: clickbait, or a title that is already the clean
\* one of its video (IdB under TitlesAB)
HostTexts == {Bait, CleanB}

\* getAttribute(...) === null
NoAttr == "<no attribute>"

\* title mappings: video identifier -> clean_title
NoTitles == [v \in {} |-> ""]
TitlesAB == (IdA :> CleanA) @@ (IdB :> CleanB)
TitlesA2 == (IdA :> CleanA2)
Mappings == {NoTitles, TitlesAB, TitlesA2}

\* the channels a card's channel element may name
GothamChannel == "GothamChess"
OtherChannel == "Another Channel"
Channels == {GothamChannel, OtherChannel}

\* the card's container c1 (ytd-rich-item-renderer) and the container c2
\* (yt-lockup-view-model) that the newer layout nests inside it
ContainerSet == {"c1", "c2"}

Off == -1

\* the notifications the observer's callback has accepted (batches with
\* added nodes or an href change, delivered while enabled) whose scan has
\* not run yet: none, or <<ms since the first, ms since the last>>
NoBurst == << >>
Notified(b) == IF b = NoBurst THEN <<0, 0>> ELSE <<b[1], 0>>

VARIABLES
  titlesCache,          \* let titlesCache
  enabled,              \* let enabled
  replacedThisSession,  \* let replacedThisSession
  processedVideoIds,    \* Map container -> videoId
  initPc,               \* where init() stands: "awaiting", "failed", "done"
  observing,            \* setupObserver / setupNavigationListener have run
  scanTimeout,          \* window.honestLevyScanTimeout: Off or ms left
  scrollTimeout,        \* scrollTimeout of setupNavigationListener
  navTimeouts,          \* setTimeout(scanPage, 500) timers, oldest first
  nested,               \* the card has the inner container c2
  link,                 \* href of the card's permalink element
  title,                \* the card's title element
  visible,              \* isElementVisible of each container
  pageUrl,              \* window.location.href
  watch,                \* the watch page's title element
  sent,                 \* incrementReplacedCount messages sent
  events,               \* host events delivered so far
  burst,                \* notifications awaiting the observer's scan
  url,                  \* an argument for extractVideoId
  extracted,            \* << >>, or <<r>> with r the value returned for url
  contextValid,         \* the extension context of this instance is live
  processedElements,    \* GothamClean variant: WeakSet of containers
  channel,              \* the channel the card's channel element names
  storedTitles,         \* chrome.storage.local: titles (<< >> or <<mapping>>)
  storedEnabled,        \* chrome.storage.local: enabled (<< >> or <<flag>>)
  replacedCount,        \* chrome.storage.local: replacedCount
  received,             \* incrementReplacedCount messages the worker got
  incGets,              \* their storage gets issued and not yet read
  incRead,              \* values read, whose callbacks have not run yet
  response,             \* << >>, or <<r>>: the getTitles response r on its way
  changeLog             \* storage.onChanged events produced, oldest first

vars == <<titlesCache, enabled, replacedThisSession, processedVideoIds, initPc,
          observing, scanTimeout, scrollTimeout, navTimeouts, nested, link,
          title, visible, pageUrl, watch, sent, events, burst, url,
          extracted, contextValid, processedElements, channel, storedTitles,
          storedEnabled, replacedCount, received, incGets, incRead, response,
          changeLog>>

\* chrome.storage.local and the background worker's requests
worker == <<storedTitles, storedEnabled, replacedCount, received, incGets,
            incRead, response, changeLog>>

\* what no handler of HonestLevy and no step of its host page changes
layout == <<nested, url, extracted, contextValid, processedElements, channel,
            worker>>

domVars == <<layout, link, title, visible, pageUrl, watch>>

\* chrome.storage.local as onInstalled's set leaves it, before the first
\* fetch of the mapping has stored one
NoStored == << >>
StorageAtInstall ==
  /\ storedTitles = NoStored
  /\ storedEnabled = <<TRUE>>
  /\ replacedCount = 0

\* no request of the content script has reached the worker yet
NoResponse == << >>
WorkerIdle ==
  /\ received = 0
  /\ incGets = 0
  /\ incRead = << >>
  /\ response = NoResponse
  /\ changeLog = << >>

(***************************************************************************)
(* The DOM as the script reads it.                                         *)
(***************************************************************************)
\* a card title element the host has just rendered
FreshTitle == [present |-> TRUE, text |-> Bait, original |-> NoAttr,
               replaced |-> FALSE]
NoTitle == [present |-> FALSE, text |-> "", original |-> NoAttr,
            replaced |-> FALSE]
FreshWatch == [present |-> TRUE, text |-> Bait, original |-> NoAttr,
               videoId |-> NoId]
NoWatch == [present |-> FALSE, text |-> "", original |-> NoAttr,
            videoId |-> NoId]

\* document.querySelectorAll over the container selectors, in selector order
Containers == IF nested THEN <<"c1", "c2">> ELSE <<"c1">>

isElementVisible(c) == visible[c]

\* first link element of the container that has an href, or null
findVideoLink(c) == link

\* first element of the container matching a title selector, or null
findTitleElement(w, c) == w.title

(***************************************************************************)
(* The script's state together with the part of the DOM it writes: the     *)
(* handlers below are functions from one such record to the next.          *)
(***************************************************************************)
Cur ==
  [titlesCache |-> titlesCache, enabled |-> enabled,
   replacedThisSession |-> replacedThisSession,
   processedVideoIds |-> processedVideoIds,
   title |-> title, watch |-> watch, sent |-> sent, wrote |-> FALSE,
   throws |-> ~contextValid, thrown |-> FALSE]

\* chrome.runtime.sendMessage({ type: 'incrementReplacedCount', count: 1 }),
\* not awaited and outside any try: in a live context the message is sent
\* and the promise returned is dropped, so a rejection reaches nothing; in
\* an invalidated context the call itself throws, and the exception leaves
\* the function that called it
sendIncrement(w) ==
  IF w.throws THEN [w EXCEPT !.thrown = TRUE] ELSE [w EXCEPT !.sent = @ + 1]

\* processVideoCard reading the original text only after overwriting it
processVideoCardLateOriginal(w, c) ==
  LET videoId == extractVideoId(findVideoLink(c))
      titleElement == findTitleElement(w, c)
  IN  IF videoId = NoId THEN w
      ELSE IF w.processedVideoIds[c] = videoId THEN w
      ELSE IF videoId \notin DOMAIN w.titlesCache THEN w
      ELSE IF ~titleElement.present THEN w
      ELSE IF ~isElementVisible(c) THEN w
      ELSE IF titleElement.text = w.titlesCache[videoId] THEN w
      ELSE [w EXCEPT
              !.title = [present |-> TRUE,
                         text |-> w.titlesCache[videoId],
                         original |-> w.titlesCache[videoId],
                         replaced |-> TRUE],
              !.processedVideoIds[c] = videoId,
              !.replacedThisSession = @ + 1,
              !.sent = @ + 1,
              !.wrote = TRUE]

\* processVideoCard recording the container before it has looked the
\* identifier up in the mapping
processVideoCardMarksFirst(w, c) ==
  LET videoId == extractVideoId(findVideoLink(c))
      titleElement == findTitleElement(w, c)
      marked == [w EXCEPT !.processedVideoIds[c] = videoId]
  IN  IF videoId = NoId THEN w
      ELSE IF w.processedVideoIds[c] = videoId THEN w
      ELSE IF videoId \notin DOMAIN w.titlesCache THEN marked
      ELSE IF ~titleElement.present THEN marked
      ELSE IF ~isElementVisible(c) THEN marked
      ELSE IF titleElement.text = w.titlesCache[videoId] THEN marked
      ELSE [marked EXCEPT
              !.title = [present |-> TRUE,
                         text |-> w.titlesCache[videoId],
                         original |-> titleElement.text,
                         replaced |-> TRUE],
              !.replacedThisSession = @ + 1,
              !.sent = @ + 1,
              !.wrote = TRUE]

\* processVideoCard without its two already-done checks (the memory lookup
\* and the comparison of the current text with the clean title)
processVideoCardNoChecks(w, c) ==
  LET videoId == extractVideoId(findVideoLink(c))
      titleElement == findTitleElement(w, c)
  IN  IF videoId = NoId THEN w
      ELSE IF videoId \notin DOMAIN w.titlesCache THEN w
      ELSE IF ~titleElement.present THEN w
      ELSE IF ~isElementVisible(c) THEN w
      ELSE [w EXCEPT
              !.title = [present |-> TRUE,
                         text |-> w.titlesCache[videoId],
                         original |-> titleElement.text,
                         replaced |-> TRUE],
              !.processedVideoIds[c] = videoId,
              !.replacedThisSession = @ + 1,
              !.sent = @ + 1,
              !.wrote = TRUE]

\* processVideoCard skipping every container it has an entry for, whatever
\* identifier the entry records
processVideoCardSeenOnce(w, c) ==
  LET videoId == extractVideoId(findVideoLink(c))
      titleElement == findTitleElement(w, c)
  IN  IF videoId = NoId THEN w
      ELSE IF w.processedVideoIds[c] # NoId THEN w
      ELSE IF videoId \notin DOMAIN w.titlesCache THEN w
      ELSE IF ~titleElement.present THEN w
      ELSE IF ~isElementVisible(c) THEN w
      ELSE IF titleElement.text = w.titlesCache[videoId] THEN w
      ELSE [w EXCEPT
              !.title = [present |-> TRUE,
                         text |-> w.titlesCache[videoId],
                         original |-> titleElement.text,
                         replaced |-> TRUE],
              !.processedVideoIds[c] = videoId,
              !.replacedThisSession = @ + 1,
              !.sent = @ + 1,
              !.wrote = TRUE]

\* processVideoCard without the check of the container's visibility
processVideoCardAnywhere(w, c) ==
  LET videoId == extractVideoId(findVideoLink(c))
      titleElement == findTitleElement(w, c)
  IN  IF videoId = NoId THEN w
      ELSE IF w.processedVideoIds[c] = videoId THEN w
      ELSE IF videoId \notin DOMAIN w.titlesCache THEN w
      ELSE IF ~titleElement.present THEN w
      ELSE IF titleElement.text = w.titlesCache[videoId] THEN w
      ELSE sendIncrement(
             [w EXCEPT
                !.title = [present |-> TRUE,
                           text |-> w.titlesCache[videoId],
                           original |-> titleElement.text,
                           replaced |-> TRUE],
                !.processedVideoIds[c] = videoId,
                !.replacedThisSession = @ + 1,
                !.wrote = TRUE])

processVideoCard(w, c) ==
  LET videoId == extractVideoId(findVideoLink(c))
      titleElement == findTitleElement(w, c)
  IN  IF videoId = NoId THEN w
      ELSE IF w.processedVideoIds[c] = videoId THEN w
      ELSE IF videoId \notin DOMAIN w.titlesCache THEN w
      ELSE IF ~titleElement.present THEN w
      ELSE IF ~isElementVisible(c) THEN w
      ELSE IF titleElement.text = w.titlesCache[videoId] THEN w
      ELSE sendIncrement(
             [w EXCEPT
                !.title = [present |-> TRUE,
                           text |-> w.titlesCache[videoId],
                           original |-> titleElement.text,
                           replaced |-> TRUE],
                !.processedVideoIds[c] = videoId,
                !.replacedThisSession = @ + 1,
                !.wrote = TRUE])

\* processWatchPageTitle with a boolean already-done check: an element that
\* carries the attribute is skipped, whatever identifier it records
processWatchPageTitleFlag(w) ==
  LET videoId == extractVideoId(pageUrl)
  IN  IF videoId = NoId THEN w
      ELSE IF videoId \notin DOMAIN w.titlesCache THEN w
      ELSE IF ~w.watch.present THEN w
      ELSE IF w.watch.videoId # NoId THEN w
      ELSE IF w.watch.text # w.titlesCache[videoId]
           THEN [w EXCEPT
                   !.watch = [present |-> TRUE,
                              text |-> w.titlesCache[videoId],
                              original |-> w.watch.text,
                              videoId |-> videoId],
                   !.sent = @ + 1,
                   !.wrote = TRUE]
           ELSE w

processWatchPageTitle(w) ==
  LET videoId == extractVideoId(pageUrl)
  IN  IF videoId = NoId THEN w
      ELSE IF videoId \notin DOMAIN w.titlesCache THEN w
      ELSE IF ~w.watch.present THEN w
      ELSE IF w.watch.videoId = videoId THEN w
      ELSE IF w.watch.text # w.titlesCache[videoId]
           THEN sendIncrement(
                  [w EXCEPT
                     !.watch = [present |-> TRUE,
                                text |-> w.titlesCache[videoId],
                                original |-> w.watch.text,
                                videoId |-> videoId],
                     !.wrote = TRUE])
           ELSE w

RECURSIVE processCards(_, _)
processCards(w, n) ==
  IF n > Len(Containers) \/ w.thrown THEN w
  ELSE processCards(processVideoCard(w, Containers[n]), n + 1)

\* scanPage without the check of the enabled flag
scanPageUngated(w) == processWatchPageTitle(processCards(w, 1))

scanPage(w) ==
  IF ~w.enabled THEN w
  ELSE LET cards == processCards(w, 1)
       IN  IF cards.thrown THEN cards ELSE processWatchPageTitle(cards)

\* a clear that leaves the entries in place
clearProcessedKeeps(w) == w

\* processedVideoIds.clear()
clearProcessed(w) ==
  [w EXCEPT !.processedVideoIds = [c \in ContainerSet |-> NoId]]

\* the callback as a throttle: a batch that arrives while a timer is pending
\* leaves that timer running
observerCallbackThrottle(en, timer) ==
  IF en /\ timer = Off THEN ScanDelay ELSE timer

\* the MutationObserver callback for a batch with added nodes or an href change
observerCallback(en, timer) == IF en THEN ScanDelay ELSE timer

\* the record w becomes the state; the title writes of the handler reach the
\* observer, when one is installed, as a batch with added nodes
Commit(w, timer, since) ==
  /\ titlesCache' = w.titlesCache
  /\ enabled' = w.enabled
  /\ replacedThisSession' = w.replacedThisSession
  /\ processedVideoIds' = w.processedVideoIds
  /\ title' = w.title
  /\ watch' = w.watch
  /\ sent' = w.sent
  /\ scanTimeout' = IF observing /\ w.wrote
                    THEN observerCallback(w.enabled, timer) ELSE timer
  /\ burst' = IF observing /\ w.wrote /\ w.enabled THEN Notified(since)
            ELSE since

(***************************************************************************)
(* Initial state: the module has been evaluated (state declared, the       *)
(* storage listener registered, init() suspended at its await) on a page   *)
(* the host has rendered.                                                  *)
(***************************************************************************)
Init ==
  /\ titlesCache = NoTitles
  /\ enabled = TRUE
  /\ replacedThisSession = 0
  /\ processedVideoIds = [c \in ContainerSet |-> NoId]
  /\ initPc = "awaiting"
  /\ observing = FALSE
  /\ scanTimeout = Off
  /\ scrollTimeout = Off
  /\ navTimeouts = << >>
  /\ nested \in BOOLEAN
  /\ link \in CardUrls
  /\ title = FreshTitle
  /\ visible = [c \in ContainerSet |-> TRUE]
  /\ pageUrl \in PageUrls
  /\ watch = IF extractVideoId(pageUrl) = NoId THEN NoWatch ELSE FreshWatch
  /\ sent = 0
  /\ events = 0
  /\ burst = NoBurst
  /\ url = NoUrl
  /\ extracted = << >>
  /\ contextValid = TRUE
  /\ processedElements = {}
  /\ channel = GothamChannel
  /\ StorageAtInstall
  /\ WorkerIdle

(***************************************************************************)
(* init(): the continuation after await chrome.runtime.sendMessage.        *)
(***************************************************************************)
\* the request rejects or resolves without a response, or the call throws
InitFails ==
  /\ initPc = "awaiting"
  /\ initPc' = "failed"
  /\ UNCHANGED <<titlesCache, enabled, replacedThisSession, processedVideoIds,
                 observing, scanTimeout, scrollTimeout, navTimeouts, sent,
                 events, burst>>
  /\ UNCHANGED domVars

\* the response arrives (in a live context); the initial scan runs before
\* the observer exists
InitResponds(titles, en) ==
  /\ initPc = "awaiting"
  /\ contextValid
  /\ initPc' = "done"
  /\ LET w0 == [Cur EXCEPT !.titlesCache = titles, !.enabled = en]
         w == IF ~w0.enabled THEN w0 ELSE scanPage(w0)
     IN  /\ Commit([w EXCEPT !.wrote = FALSE], scanTimeout, burst)
         /\ observing' = w0.enabled
  /\ UNCHANGED <<scrollTimeout, navTimeouts, events>>
  /\ UNCHANGED <<layout, link, visible, pageUrl>>

(***************************************************************************)
(* chrome.storage.onChanged listener.                                      *)
(***************************************************************************)
\* changes.enabled / changes.titles: absent, or a change carrying newValue
NoChange == << >>
EnabledChanges == {NoChange, <<TRUE>>, <<FALSE>>}
TitlesChanges == {NoChange} \cup {<<m>> : m \in Mappings}

\* the change events delivered: every combination of keys for the area
\* "local", and events of another area carrying both keys
StorageEvents ==
  [namespace : {"local"}, enabled : EnabledChanges, titles : TitlesChanges]
    \cup [namespace : {"sync"}, enabled : {<<TRUE>>, <<FALSE>>},
          titles : {<<TitlesAB>>}]

onEnabledChanged(w, ch) ==
  IF ch = NoChange THEN w
  ELSE LET w1 == [w EXCEPT !.enabled = ch[1]]
       IN  IF w1.enabled THEN scanPage(clearProcessed(w1)) ELSE w1

\* the titles branch merging the pushed entries into the mapping it holds
onTitlesChangedMerge(w, ch) ==
  IF ch = NoChange THEN w
  ELSE scanPage(clearProcessed([w EXCEPT !.titlesCache = ch[1] @@ @]))

onTitlesChanged(w, ch) ==
  IF ch = NoChange THEN w
  ELSE scanPage(clearProcessed([w EXCEPT !.titlesCache = ch[1]]))

onStorageChanged(w, namespace, chEnabled, chTitles) ==
  IF namespace # "local" THEN w
  ELSE LET w1 == onEnabledChanged(w, chEnabled)
       IN  IF w1.thrown THEN w1 ELSE onTitlesChanged(w1, chTitles)

StorageChanged(namespace, chEnabled, chTitles) ==
  /\ contextValid
  /\ events < MaxEvents
  /\ events' = events + 1
  /\ Commit(onStorageChanged(Cur, namespace, chEnabled, chTitles), scanTimeout,
            burst)
  /\ UNCHANGED <<initPc, observing, scrollTimeout, navTimeouts>>
  /\ UNCHANGED <<layout, link, visible, pageUrl>>

(***************************************************************************)
(* Scheduler: observer, navigation and scroll listeners, and their timers. *)
(***************************************************************************)
\* a batch of mutation records with added nodes or an href change
MutationNotified ==
  /\ observing
  /\ events < MaxEvents
  /\ events' = events + 1
  /\ scanTimeout' = observerCallback(enabled, scanTimeout)
  /\ burst' = IF enabled THEN Notified(burst) ELSE burst
  /\ UNCHANGED <<titlesCache, enabled, replacedThisSession, processedVideoIds,
                 initPc, observing, scrollTimeout, navTimeouts, sent>>
  /\ UNCHANGED domVars

\* yt-navigate-finish or popstate
Navigated(ev) ==
  /\ observing
  /\ events < MaxEvents
  /\ Len(navTimeouts) < MaxNavTimers
  /\ events' = events + 1
  /\ processedVideoIds' = clearProcessed(Cur).processedVideoIds
  /\ navTimeouts' = Append(navTimeouts, NavDelay)
  /\ UNCHANGED <<titlesCache, enabled, replacedThisSession, initPc, observing,
                 scanTimeout, scrollTimeout, sent, burst>>
  /\ UNCHANGED domVars

Scrolled ==
  /\ observing
  /\ events < MaxEvents
  /\ events' = events + 1
  /\ scrollTimeout' = ScrollDelay
  /\ UNCHANGED <<titlesCache, enabled, replacedThisSession, processedVideoIds,
                 initPc, observing, scanTimeout, navTimeouts, sent,
                 burst>>
  /\ UNCHANGED domVars

\* setTimeout(scanPage, 100) of the observer comes due
ScanTimerFires ==
  /\ scanTimeout # Off
  /\ Commit(scanPage(Cur), Off, NoBurst)
  /\ UNCHANGED <<initPc, observing, scrollTimeout, navTimeouts, events>>
  /\ UNCHANGED <<layout, link, visible, pageUrl>>

\* setTimeout(scanPage, 200) of the scroll listener comes due
ScrollTimerFires ==
  /\ scrollTimeout # Off
  /\ scrollTimeout' = Off
  /\ Commit(scanPage(Cur), scanTimeout, burst)
  /\ UNCHANGED <<initPc, observing, navTimeouts, events>>
  /\ UNCHANGED <<layout, link, visible, pageUrl>>

\* the oldest setTimeout(scanPage, 500) of a navigation comes due
NavTimerFires ==
  /\ navTimeouts # << >>
  /\ navTimeouts' = Tail(navTimeouts)
  /\ Commit(scanPage(Cur), scanTimeout, burst)
  /\ UNCHANGED <<initPc, observing, scrollTimeout, events>>
  /\ UNCHANGED <<layout, link, visible, pageUrl>>

(***************************************************************************)
(* The host page.                                                          *)
(***************************************************************************)
\* what the observer does with a host change it is told of
HostNotifies(told) ==
  /\ scanTimeout' = IF observing /\ told
                    THEN observerCallback(enabled, scanTimeout)
                    ELSE scanTimeout
  /\ burst' = IF observing /\ told /\ enabled THEN Notified(burst)
            ELSE burst

\* the host points a card at another video (or at none): an href change
HostSetsLink(u) ==
  /\ events < MaxEvents
  /\ link # u
  /\ events' = events + 1
  /\ link' = u
  /\ HostNotifies(TRUE)
  /\ UNCHANGED <<titlesCache, enabled, replacedThisSession, processedVideoIds,
                 initPc, observing, scrollTimeout, navTimeouts, sent>>
  /\ UNCHANGED <<layout, title, visible, pageUrl, watch>>

\* the host renders a card's title again: as new child nodes (told), or by
\* editing the text node in place (character data, which is not observed)
HostSetsTitle(t, told) ==
  /\ events < MaxEvents
  /\ events' = events + 1
  /\ title' = IF title.present THEN [title EXCEPT !.text = t]
              ELSE [FreshTitle EXCEPT !.text = t]
  /\ HostNotifies(told \/ ~title.present)
  /\ UNCHANGED <<titlesCache, enabled, replacedThisSession, processedVideoIds,
                 initPc, observing, scrollTimeout, navTimeouts, sent>>
  /\ UNCHANGED <<layout, link, visible, pageUrl, watch>>

\* the host drops a card's title element: removed nodes only
HostRemovesTitle ==
  /\ events < MaxEvents
  /\ title.present
  /\ events' = events + 1
  /\ title' = NoTitle
  /\ UNCHANGED <<titlesCache, enabled, replacedThisSession, processedVideoIds,
                 initPc, observing, scanTimeout, scrollTimeout, navTimeouts,
                 sent, burst>>
  /\ UNCHANGED <<layout, link, visible, pageUrl, watch>>

\* layout or scrolling moves a container into or out of view
HostSetsVisible(c, b) ==
  /\ events < MaxEvents
  /\ c = "c1" \/ nested
  /\ visible[c] # b
  /\ events' = events + 1
  /\ visible' = [visible EXCEPT ![c] = b]
  /\ UNCHANGED <<titlesCache, enabled, replacedThisSession, processedVideoIds,
                 initPc, observing, scanTimeout, scrollTimeout, navTimeouts,
                 sent, burst>>
  /\ UNCHANGED <<layout, link, title, pageUrl, watch>>

\* the single-page app moves to another address
HostSetsLocation(u) ==
  /\ events < MaxEvents
  /\ pageUrl # u
  /\ events' = events + 1
  /\ pageUrl' = u
  /\ UNCHANGED <<titlesCache, enabled, replacedThisSession, processedVideoIds,
                 initPc, observing, scanTimeout, scrollTimeout, navTimeouts,
                 sent, burst>>
  /\ UNCHANGED <<layout, link, title, visible, watch>>

\* the host renders the watch page's title into the (reused) element
HostSetsWatchTitle(t, told) ==
  /\ events < MaxEvents
  /\ events' = events + 1
  /\ watch' = IF watch.present THEN [watch EXCEPT !.text = t]
              ELSE [FreshWatch EXCEPT !.text = t]
  /\ HostNotifies(told \/ ~watch.present)
  /\ UNCHANGED <<titlesCache, enabled, replacedThisSession, processedVideoIds,
                 initPc, observing, scrollTimeout, navTimeouts, sent>>
  /\ UNCHANGED <<layout, link, title, visible, pageUrl>>

Host ==
  \/ \E u \in CardUrls : HostSetsLink(u)
  \/ \E t \in HostTexts, told \in BOOLEAN : HostSetsTitle(t, told)
  \/ HostRemovesTitle
  \/ \E c \in ContainerSet, b \in BOOLEAN : HostSetsVisible(c, b)
  \/ \E u \in PageUrls : HostSetsLocation(u)
  \/ \E t \in HostTexts, told \in BOOLEAN : HostSetsWatchTitle(t, told)

\* what the browser delivers to the script, and what the host does
Events ==
  \/ InitFails
  \/ \E titles \in Mappings, en \in BOOLEAN : InitResponds(titles, en)
  \/ \E ev \in StorageEvents :
       StorageChanged(ev.namespace, ev.enabled, ev.titles)
  \/ MutationNotified
  \/ \E ev \in {"yt-navigate-finish", "popstate"} : Navigated(ev)
  \/ Scrolled
  \/ Host

\* time abstracted away: a pending timer may come due at any moment
Next ==
  \/ Events
  \/ ScanTimerFires
  \/ ScrollTimerFires
  \/ NavTimerFires

Spec == Init /\ [][Next]_vars

(***************************************************************************)
(* The same script with time: the timers count down in steps of half the   *)
(* observer's delay, a timer runs its callback when it has counted down to *)
(* 0, and time does not pass a due timer.                                  *)
(***************************************************************************)
TickLen == ScanDelay \div 2

\* the time left on every pending timer
PendingTimers ==
  ({scanTimeout, scrollTimeout} \ {Off})
    \cup {navTimeouts[i] : i \in 1..Len(navTimeouts)}

Tick ==
  /\ PendingTimers # {}
  /\ \A t \in PendingTimers : t >= TickLen
  /\ scanTimeout' = IF scanTimeout = Off THEN Off ELSE scanTimeout - TickLen
  /\ scrollTimeout' = IF scrollTimeout = Off THEN Off
                      ELSE scrollTimeout - TickLen
  /\ navTimeouts' = [i \in 1..Len(navTimeouts) |-> navTimeouts[i] - TickLen]
  /\ burst' = IF burst = NoBurst THEN NoBurst
              ELSE <<burst[1] + TickLen, burst[2] + TickLen>>
  /\ UNCHANGED <<titlesCache, enabled, replacedThisSession, processedVideoIds,
                 initPc, observing, sent, events>>
  /\ UNCHANGED domVars

ScanTimerDue == scanTimeout = 0 /\ ScanTimerFires

ScrollTimerDue == scrollTimeout = 0 /\ ScrollTimerFires

NavTimerDue ==
  /\ navTimeouts # << >>
  /\ Head(navTimeouts) = 0
  /\ NavTimerFires

NextTimed ==
  \/ Events
  \/ ScanTimerDue
  \/ ScrollTimerDue
  \/ NavTimerDue
  \/ Tick

SpecTimed == Init /\ [][NextTimed]_vars

(***************************************************************************)
(* Vocabulary of the properties.                                           *)
(***************************************************************************)
\* the steps that are one call of scanPage() from a timer
TimerScan == ScanTimerFires \/ ScrollTimerFires \/ NavTimerFires

\* the steps that are one call of scanPage()
OneScan == TimerScan \/ \E m \in Mappings : InitResponds(m, TRUE)

\* the steps of the content script (every step that is not the host's)
ScriptStep ==
  \/ InitFails
  \/ \E m \in Mappings, en \in BOOLEAN : InitResponds(m, en)
  \/ \E ev \in StorageEvents :
       StorageChanged(ev.namespace, ev.enabled, ev.titles)
  \/ MutationNotified
  \/ \E ev \in {"yt-navigate-finish", "popstate"} : Navigated(ev)
  \/ Scrolled
  \/ TimerScan

\* the containers scanPage enumerates
Scanned == {Containers[n] : n \in 1..Len(Containers)}

\* the identifier the card's permalink yields, and the page's
cardId == extractVideoId(link)
pageId == extractVideoId(pageUrl)

\* the record on which a OneScan step calls processVideoCard(c): the state
\* with the mapping of the scan, after the containers enumerated before c
AtCard(c) ==
  LET w0 == [Cur EXCEPT !.titlesCache = titlesCache', !.enabled = enabled']
  IN  IF c = "c1" THEN w0 ELSE processVideoCard(w0, "c1")

(***************************************************************************)
(* Substitution engine: processVideoCard.                                  *)
(***************************************************************************)
\* C1: when one call of scanPage() with enabled = TRUE reaches a visible
\* container that has no processedVideoIds entry, whose permalink yields an
\* identifier V of the mapping and whose title element exists with a text
\* other than V's clean title, then after the scan the title text is V's
\* clean title, the replaced flag is set, the original-text attribute holds
\* the previous text, processedVideoIds[container] = V and
\* replacedThisSession has grown by exactly 1.
C1_Substitutes ==
  [][\A c \in Scanned :
       ( /\ OneScan
         /\ enabled'
         /\ visible[c]
         /\ AtCard(c).processedVideoIds[c] = NoId
         /\ cardId # NoId
         /\ cardId \in DOMAIN titlesCache'
         /\ AtCard(c).title.present
         /\ AtCard(c).title.text # titlesCache'[cardId] )
       => /\ title'.text = titlesCache'[cardId]
          /\ title'.replaced
          /\ title'.original = title.text
          /\ processedVideoIds'[c] = cardId
          /\ replacedThisSession' = replacedThisSession + 1]_vars

\* the scenario of the specification, after the first scan of a fresh instance
C1_Witness ==
  /\ link = UrlWatchA
  /\ titlesCache = TitlesAB
  /\ title = [present |-> TRUE, text |-> CleanA, original |-> Bait,
              replaced |-> TRUE]
  /\ processedVideoIds["c1"] = IdA
  /\ replacedThisSession = 1
  /\ sent = 1
  /\ events = 0

\* C2: when the container's permalink yields no identifier, or one that is
\* no key of the mapping, processVideoCard changes nothing: title text and
\* attributes, processedVideoIds, replacedThisSession and the messages sent
\* are as before.
C2_UntrackedUntouched ==
  \A c \in Scanned :
    (cardId = NoId \/ cardId \notin DOMAIN titlesCache)
      => processVideoCard(Cur, c) = Cur

\* a scan has run over a visible card whose identifier the mapping lacks
C2_Witness ==
  /\ initPc = "done"
  /\ enabled
  /\ titlesCache = TitlesA2
  /\ link = UrlShortB
  /\ cardId = IdB
  /\ title = FreshTitle
  /\ visible["c1"]
  /\ processedVideoIds["c1"] = NoId
  /\ replacedThisSession = 0

\* C3: two calls of processVideoCard in succession on a container the host
\* leaves alone: the second changes neither title text, attributes nor
\* processedVideoIds, and both together add at most 1 to replacedThisSession
\* and send at most one message.
C3_Idempotent ==
  \A c \in Scanned :
    LET w1 == processVideoCard(Cur, c)
        w2 == processVideoCard(w1, c)
    IN  /\ w2.title = w1.title
        /\ w2.watch = w1.watch
        /\ w2.processedVideoIds = w1.processedVideoIds
        /\ w2.replacedThisSession <= replacedThisSession + 1
        /\ w2.sent <= sent + 1

\* a state in which the first call substitutes the title
C3_Witness ==
  /\ initPc = "done"
  /\ replacedThisSession = 1
  /\ processVideoCard(Cur, "c1").replacedThisSession = 2

\* C4: a container whose processedVideoIds entry records an identifier A,
\* while its permalink now yields another identifier B of the mapping, is
\* not skipped: if it is visible and its title element exists, a scanPage()
\* with enabled = TRUE leaves the title text equal to B's clean title.
C4_RecycledResubstituted ==
  [][\A c \in Scanned :
       ( /\ TimerScan
         /\ enabled
         /\ processedVideoIds[c] # NoId
         /\ cardId # NoId
         /\ processedVideoIds[c] # cardId
         /\ cardId \in DOMAIN titlesCache
         /\ visible[c]
         /\ title.present )
       => title'.text = titlesCache[cardId]]_vars

\* the card was substituted for IdA, the host pointed it at IdB leaving
\* the text, and the scan replaced IdA's clean title by IdB's
C4_Witness ==
  /\ link = UrlShortB
  /\ processedVideoIds["c1"] = IdB
  /\ title = [present |-> TRUE, text |-> CleanB, original |-> CleanA,
              replaced |-> TRUE]
  /\ replacedThisSession = 2

(***************************************************************************)
(* Scheduler and settings.                                                 *)
(***************************************************************************)
\* C5: a yt-navigate-finish or popstate event the listener handles empties
\* processedVideoIds, whatever the settings, and adds one scanPage timer of
\* 500 ms; when that timer's scan meets a visible card with a tracked
\* identifier, a title element and no entry, the title text ends equal to
\* the clean title, and if the text was the clean title already (left from
\* before the navigation) neither replacedThisSession nor the card grows or
\* changes.
C5_NavigationReset ==
  [][ /\ (\E ev \in {"yt-navigate-finish", "popstate"} : Navigated(ev))
         => /\ \A c \in ContainerSet : processedVideoIds'[c] = NoId
            /\ navTimeouts' = Append(navTimeouts, NavDelay)
      /\ \A c \in Scanned :
           ( /\ NavTimerFires
             /\ enabled
             /\ processedVideoIds[c] = NoId
             /\ cardId # NoId
             /\ cardId \in DOMAIN titlesCache
             /\ visible[c]
             /\ title.present )
           => /\ title'.text = titlesCache[cardId]
              /\ title.text = titlesCache[cardId]
                   => /\ replacedThisSession' = replacedThisSession
                      /\ title' = title ]_vars

\* the card was substituted for IdA once, a navigation cleared the memory,
\* and the navigation's scan has run over the card showing IdA again
C5_Witness ==
  /\ observing
  /\ link = UrlWatchA
  /\ titlesCache = TitlesAB
  /\ title = [present |-> TRUE, text |-> CleanA, original |-> Bait,
              replaced |-> TRUE]
  /\ processedVideoIds["c1"] = NoId
  /\ replacedThisSession = 1
  /\ navTimeouts = << >>
  /\ scanTimeout = Off
  /\ scrollTimeout = Off
  /\ events = 1

\* C6: no step of the content script that ends with enabled = FALSE (a
\* scanPage called from a timer, by the storage listener or by init while
\* the flag is off) changes the text or an attribute of a title: a step
\* that does so while the flag is off is the host's.
C6_DisabledGating ==
  [][(~enabled' /\ (title' # title \/ watch' # watch)) => ~ScriptStep]_vars

\* the storage listener has called scanPage() with the flag off, a tracked
\* visible card on the page
C6_Witness ==
  /\ initPc = "failed"
  /\ ~enabled
  /\ titlesCache = TitlesAB
  /\ link = UrlWatchA
  /\ title = FreshTitle
  /\ visible["c1"]

(***************************************************************************)
(* Watch page title: processWatchPageTitle.                                *)
(***************************************************************************)
\* the watch title element is tagged for a video other than the page's, and
\* the page's video is in the mapping (the element was reused across an
\* in-page navigation from A to tracked B)
WatchReused ==
  /\ watch.present
  /\ watch.videoId # NoId
  /\ pageId # NoId
  /\ watch.videoId # pageId
  /\ pageId \in DOMAIN titlesCache

\* C9 (as stated): when the watch title element is tagged for A and the page
\* URL now yields tracked B, processWatchPageTitle leaves the title text
\* equal to B's clean title and data-honestlevy-video-id equal to B.
C9_WatchRetaggedAlways ==
  WatchReused
    => LET w == processWatchPageTitle(Cur)
       IN  /\ w.watch.text = titlesCache[pageId]
           /\ w.watch.videoId = pageId

\* C9 (amended): when the watch title element is tagged for A and the page
\* URL now yields tracked B, processWatchPageTitle does not skip the element:
\* it leaves the title text equal to B's clean title; when it had to rewrite
\* the text it records the previous text and tags the element for B, and
\* when the text already was B's clean title it leaves the element as it is,
\* still tagged for A.
C9_WatchRetagged ==
  WatchReused
    => LET w == processWatchPageTitle(Cur)
       IN  /\ w.watch.text = titlesCache[pageId]
           /\ watch.text # titlesCache[pageId]
                => /\ w.watch.videoId = pageId
                   /\ w.watch.original = watch.text
           /\ watch.text = titlesCache[pageId] => w.watch = watch

\* the title was substituted and tagged for IdA on IdA's page, the page went
\* to IdB, and the scan of the navigation rewrote the reused element for IdB
C9_Witness ==
  /\ pageUrl = UrlShortB
  /\ titlesCache = TitlesAB
  /\ watch = [present |-> TRUE, text |-> CleanB, original |-> CleanA,
              videoId |-> IdB]
  /\ sent >= 2

(***************************************************************************)
(* Startup failure.                                                        *)
(***************************************************************************)
\* C10 (as stated): once the startup getTitles request has failed, no step
\* of the content script changes the text or an attribute of a title, under
\* any later mutation, scroll, navigation or storage-change event.
C10_InertAfterFailure ==
  [][(initPc = "failed" /\ (title' # title \/ watch' # watch))
       => ~ScriptStep]_vars

(***************************************************************************)
(* extractVideoId on its own: the arguments it is applied to, and the step *)
(* that applies it.                                                        *)
(***************************************************************************)
IdC == <<"m","N","o","P","q","r","5","6","7","_","-">>

\* what precedes the query parameter: nothing, a watch path, a path or host
\* of one of the other three shapes, a watch path with a first parameter
UrlHeads ==
  { << >>,
    Origin \o <<"/","w","a","t","c","h">>,
    UrlShortB,
    <<"y","o","u","t","u",".","b","e","/">> \o IdB,
    Origin \o <<"/","e","m","b","e","d","/">> \o IdB,
    Origin \o <<"/","w","a","t","c","h","?","t","=","1">> }

\* the parameter marker and its near misses
UrlMarkers ==
  { <<"?","v","=">>, <<"&","v","=">>, <<"v","=">>, <<"?","V","=">>,
    <<"/","v","/">> }

\* the value: 11 identifier characters, 10, 12, 11 with a character outside
\* the class in the middle, none
UrlTokens ==
  { IdA,
    SubSeq(IdA, 1, IdLen - 1),
    IdA \o <<"x">>,
    SubSeq(IdA, 1, 5) \o <<".">> \o SubSeq(IdA, 6, IdLen),
    << >> }

\* what follows: nothing, another parameter, a second v parameter, a
\* fragment, a path of the fourth shape
UrlTails ==
  { << >>,
    <<"&","t","=","5">>,
    <<"&","v","=">> \o IdC,
    <<"#","t">>,
    <<"/","e","m","b","e","d","/">> \o IdC }

ExtractInputs ==
  {NoUrl} \cup
  {h \o m \o t \o tl : h \in UrlHeads, m \in UrlMarkers, t \in UrlTokens,
                       tl \in UrlTails}

\* an instance in which only extractVideoId is exercised
InitExtract ==
  /\ titlesCache = NoTitles
  /\ enabled = TRUE
  /\ replacedThisSession = 0
  /\ processedVideoIds = [c \in ContainerSet |-> NoId]
  /\ initPc = "awaiting"
  /\ observing = FALSE
  /\ scanTimeout = Off
  /\ scrollTimeout = Off
  /\ navTimeouts = << >>
  /\ nested = FALSE
  /\ link = NoUrl
  /\ title = NoTitle
  /\ visible = [c \in ContainerSet |-> TRUE]
  /\ pageUrl = UrlHome
  /\ watch = NoWatch
  /\ sent = 0
  /\ events = 0
  /\ burst = NoBurst
  /\ url \in ExtractInputs
  /\ extracted = << >>
  /\ contextValid = TRUE
  /\ processedElements = {}
  /\ channel = GothamChannel
  /\ StorageAtInstall
  /\ WorkerIdle

\* const videoId = extractVideoId(url)
Extract ==
  /\ extracted = << >>
  /\ extracted' = <<extractVideoId(url)>>
  /\ UNCHANGED <<titlesCache, enabled, replacedThisSession, processedVideoIds,
                 initPc, observing, scanTimeout, scrollTimeout, navTimeouts,
                 nested, link, title, visible, pageUrl, watch, sent, events,
                 burst, url, contextValid, processedElements, channel, worker>>

NextExtract == Extract

SpecExtract == InitExtract /\ [][NextExtract]_vars

(***************************************************************************)
(* Identifier extraction: what the properties say of a URL, stated on the  *)
(* characters of the URL.                                                  *)
(***************************************************************************)
\* s occurs in u at position i
OccursAt(u, s, i) ==
  /\ i >= 1
  /\ i + Len(s) - 1 <= Len(u)
  /\ \A k \in 1..Len(s) : u[i + k - 1] = s[k]

\* the number of consecutive identifier characters of u from position j on
IdRun(u, j) ==
  CHOOSE n \in 0..(Len(u) + 1) :
    /\ j + n - 1 <= Len(u) \/ n = 0
    /\ \A k \in 0..(n - 1) : u[j + k] \in IdChars
    /\ j + n > Len(u) \/ u[j + n] \notin IdChars

\* the four shapes in their fixed order, as the markers that introduce the
\* token
ShapeMarkers ==
  << {<<"?","v","=">>, <<"&","v","=">>},
     {<<"y","o","u","t","u",".","b","e","/">>},
     {<<"/","s","h","o","r","t","s","/">>},
     {<<"/","e","m","b","e","d","/">>} >>

\* a marker of shape k stands at position i of u, followed by a token
ShapeAt(u, k, i) ==
  \E s \in ShapeMarkers[k] :
    /\ OccursAt(u, s, i)
    /\ i + Len(s) <= Len(u)
    /\ IdRun(u, i + Len(s)) >= IdLen

\* the 11 characters that follow the marker of shape k at position i
TokenAt(u, k, i) ==
  LET s == CHOOSE s \in ShapeMarkers[k] : OccursAt(u, s, i)
  IN  SubSeq(u, i + Len(s), i + Len(s) + IdLen - 1)

ShapeMatches(u, k) == \E i \in 1..Len(u) : ShapeAt(u, k, i)

\* '?v=' or '&v=' at position i, followed by exactly 11 identifier characters
VParamExactAt(u, i) ==
  /\ \E s \in ShapeMarkers[1] : OccursAt(u, s, i)
  /\ i + 3 <= Len(u)
  /\ IdRun(u, i + 3) = IdLen

\* C8 (as stated): once extractVideoId(url) has returned, (1) for every
\* '?v=' or '&v=' in url that is followed by exactly 11 characters of
\* [a-zA-Z0-9_-], the value returned is that 11-character token; (2) for a
\* url matching none of the four shapes, and for absent or empty input, it
\* is null; (3) when several shapes match, it is the token of the first
\* shape in the order v=, youtu.be/, /shorts/, /embed/.
C8_ExtractsEveryVParam ==
  extracted # << >> =>
    /\ \A i \in 1..Len(url) :
         VParamExactAt(url, i) => extracted[1] = TokenAt(url, 1, i)
    /\ (url = NoUrl \/ \A k \in 1..4 : ~ShapeMatches(url, k))
         => extracted[1] = NoId
    /\ \A k \in 1..4 :
         (ShapeMatches(url, k) /\ \A j \in 1..(k - 1) : ~ShapeMatches(url, j))
           => \E i \in 1..Len(url) :
                ShapeAt(url, k, i) /\ extracted[1] = TokenAt(url, k, i)

\* C8 (amended): once extractVideoId(url) has returned, (1) for a '?v=' or
\* '&v=' in url that is followed by exactly 11 characters of [a-zA-Z0-9_-]
\* and has no '?v=' or '&v=' followed by 11 or more such characters to its
\* left, the value returned is that 11-character token; (2) for a url
\* matching none of the four shapes, and for absent or empty input, it is
\* null; (3) when several shapes match, it is the token of the first shape
\* in the order v=, youtu.be/, /shorts/, /embed/, taken (its first 11
\* characters) at that shape's leftmost occurrence.
C8_Extracts ==
  extracted # << >> =>
    /\ \A i \in 1..Len(url) :
         (VParamExactAt(url, i) /\ \A j \in 1..(i - 1) : ~ShapeAt(url, 1, j))
           => extracted[1] = TokenAt(url, 1, i)
    /\ (url = NoUrl \/ \A k \in 1..4 : ~ShapeMatches(url, k))
         => extracted[1] = NoId
    /\ \A k \in 1..4 :
         (ShapeMatches(url, k) /\ \A j \in 1..(k - 1) : ~ShapeMatches(url, j))
           => \E i \in 1..Len(url) :
                /\ ShapeAt(url, k, i)
                /\ \A j \in 1..(i - 1) : ~ShapeAt(url, k, j)
                /\ extracted[1] = TokenAt(url, k, i)

\* a URL in which the /shorts/ shape and the v= parameter both match: the
\* token of the v= parameter has been returned
C8_Witness ==
  /\ url = UrlShortB \o <<"?","v","=">> \o IdA \o <<"&","t","=","5">>
  /\ extracted = <<IdA>>

(***************************************************************************)
(* Debounce of the observer.                                               *)
(***************************************************************************)
\* C7: a burst of notifications the observer accepts is served by exactly
\* one scanPage() of the observer's timer, 100 ms after the last of them:
\* after every step a timer is pending exactly when notifications await
\* their scan, and it has 100 ms minus the time since the last notification
\* left (each notification restarts the full delay); the timer's scanPage()
\* runs only when 100 ms have passed since the last notification, and it
\* ends the burst: afterwards no timer is pending, unless the scan's own
\* title write has notified the observer and so begun a new burst.
C7_Debounce ==
  [][ /\ (burst' = NoBurst) <=> (scanTimeout' = Off)
      /\ burst' # NoBurst => scanTimeout' = ScanDelay - burst'[2]
      /\ ScanTimerDue
           => /\ burst # NoBurst
              /\ burst[2] = ScanDelay
              /\ burst' \in {NoBurst, <<0, 0>>}
              /\ burst' = <<0, 0>> => (title' # title \/ watch' # watch) ]_vars

\* two notifications 50 ms apart have been accepted and 100 ms have passed
\* since the second: the one timer of the burst is due
C7_Witness ==
  /\ observing
  /\ enabled
  /\ events = 2
  /\ burst = <<ScanDelay + TickLen, ScanDelay>>
  /\ scanTimeout = 0
  /\ scrollTimeout = Off
  /\ navTimeouts = << >>

(***************************************************************************)
(* Settings and mapping bridge.                                            *)
(***************************************************************************)
\* C11: the storage listener applies only the keys an event carries: an
\* event for an area other than 'local', or carrying neither key, changes
\* nothing at all; an event carrying only 'enabled' sets the flag and leaves
\* titlesCache as it is; an event carrying only 'titles' leaves the flag as
\* it is and makes titlesCache the pushed mapping itself, whatever entries
\* the previous mapping had.
C11_OnlyCarriedKeys ==
  \A ev \in StorageEvents :
    ( \/ ev.namespace # "local"
      \/ ev.enabled = NoChange
      \/ ev.titles = NoChange )
    => LET w == onStorageChanged(Cur, ev.namespace, ev.enabled, ev.titles)
       IN  IF ev.namespace # "local" THEN w = Cur
           ELSE IF ev.enabled = NoChange /\ ev.titles = NoChange THEN w = Cur
           ELSE IF ev.titles = NoChange
                THEN w.enabled = ev.enabled[1] /\ w.titlesCache = titlesCache
           ELSE w.titlesCache = ev.titles[1] /\ w.enabled = enabled

\* an instance that loaded TitlesAB enabled has handled an event carrying
\* only enabled = false: the mapping is the one it had
C11_Witness ==
  /\ observing
  /\ ~enabled
  /\ titlesCache = TitlesAB
  /\ events = 1

(***************************************************************************)
(* The instance outliving its extension context: the extension is          *)
(* reloaded, updated or removed while the page stays open.  The script's   *)
(* observer, listeners and timers go on running; chrome.runtime calls      *)
(* throw, and no response or storage event reaches the instance any more.  *)
(***************************************************************************)
ContextInvalidated ==
  /\ contextValid
  /\ contextValid' = FALSE
  /\ UNCHANGED <<titlesCache, enabled, replacedThisSession, processedVideoIds,
                 initPc, observing, scanTimeout, scrollTimeout, navTimeouts,
                 nested, link, title, visible, pageUrl, watch, sent, events,
                 burst, url, extracted, processedElements, channel, worker>>

NextOrphaned ==
  \/ Next
  \/ ContextInvalidated

SpecOrphaned == Init /\ [][NextOrphaned]_vars

\* the record Cur with the notification delivered
Delivering == [Cur EXCEPT !.throws = FALSE]

\* C12 (as stated): a scanPage() whose incrementReplacedCount notifications
\* fail leaves every title text, metadata attribute, processedVideoIds
\* entry and replacedThisSession as the same scan with successful delivery
\* leaves them: the fragments after the failing one are still processed.
C12_DeliveryFailureHarmless ==
  ~contextValid =>
    LET failing == scanPage(Cur)
        delivered == scanPage(Delivering)
    IN  /\ failing.title = delivered.title
        /\ failing.watch = delivered.watch
        /\ failing.processedVideoIds = delivered.processedVideoIds
        /\ failing.replacedThisSession = delivered.replacedThisSession

(***************************************************************************)
(* Processing memory.                                                      *)
(***************************************************************************)
\* C13 (as stated, read at the states in which the script has had its turn,
\* no scan being pending): if processedVideoIds records identifier V for a
\* container, then V is a key of the current mapping and the container's
\* title element, if it has one, shows V's clean title.
C13_MemoryConsistent ==
  (scanTimeout = Off /\ scrollTimeout = Off /\ navTimeouts = << >>)
    => \A c \in Scanned :
         processedVideoIds[c] # NoId
           => /\ processedVideoIds[c] \in DOMAIN titlesCache
              /\ title.present
                   => title.text = titlesCache[processedVideoIds[c]]

(***************************************************************************)
(* Timers of the scheduler.                                                *)
(***************************************************************************)
\* C14 (as stated): for each timer purpose at most one timer is pending at
\* any time.  The mutation and the scroll timer are each kept in one handle
\* (scanTimeout, scrollTimeout), cleared before it is set again; the timers
\* this property counts are those of the navigation rescan.
C14_OneTimerPerPurpose == Len(navTimeouts) <= 1

\* C15 (as stated): while enabled = false a mutation, scroll or navigation
\* event delivered to the installed listeners arms no timer and leaves
\* processedVideoIds unchanged.
C15_DisabledSchedulerIdle ==
  [][ ( /\ ~enabled
        /\ \/ MutationNotified
           \/ Scrolled
           \/ \E ev \in {"yt-navigate-finish", "popstate"} : Navigated(ev) )
      => /\ scanTimeout' = scanTimeout
         /\ scrollTimeout' = scrollTimeout
         /\ navTimeouts' = navTimeouts
         /\ processedVideoIds' = processedVideoIds ]_vars

(***************************************************************************)
(* Scanner: scanPage.                                                      *)
(***************************************************************************)
\* the record a handler left behind, as the next handler finds it
Returned(w) == [w EXCEPT !.thrown = FALSE, !.wrote = FALSE]

\* C16 (as stated): with mapping, settings, URL and the host's content
\* fixed, a second scanPage() run after a first changes no title text, no
\* attribute, no processedVideoIds entry and no counter and sends no
\* message, nested containers that share one title element included.
C16_ScanIdempotent ==
  LET w1 == scanPage(Cur)
      w2 == scanPage(Returned(w1))
  IN  /\ w2.title = w1.title
      /\ w2.watch = w1.watch
      /\ w2.processedVideoIds = w1.processedVideoIds
      /\ w2.replacedThisSession = w1.replacedThisSession
      /\ w2.sent = w1.sent


(***************************************************************************)
(* C17: the scheduler comes to rest.  A timer the browser holds comes due  *)
(* in the end: that is weak fairness of the timers' callbacks,             *)
(* WF_vars(TimerScan), which reads                                         *)
(*     []<>~(ENABLED <<TimerScan>>_vars) \/ []<><<TimerScan>>_vars.        *)
(* A callback is enabled exactly when its timer is pending                 *)
(* (TimersEnabled), so the first disjunct is []<>Idle.  The host's events  *)
(* are finitely many (at most MaxEvents).                                  *)
(***************************************************************************)
\* idle: no timer of the script is pending
Idle == scanTimeout = Off /\ scrollTimeout = Off /\ navTimeouts = << >>

\* a callback can run, and changes the state, exactly when a timer is pending
TimersEnabled == (ENABLED <<TimerScan>>_vars) <=> ~Idle

\* every pending timer's callback runs in the end
TimersComeDue == []<>Idle \/ []<><<TimerScan>>_vars

SpecFair == Init /\ [][NextOrphaned]_vars /\ TimersComeDue

\* the timers pending
Pending ==
  (IF scanTimeout = Off THEN 0 ELSE 1) + (IF scrollTimeout = Off THEN 0 ELSE 1)
    + Len(navTimeouts)

\* the title elements that show another text than the clean title of the
\* tracked video they stand for: t the card's, wt the watch page's
Unsubstituted(t, wt) ==
  (IF /\ cardId \in DOMAIN titlesCache
      /\ t.present
      /\ t.text # titlesCache[cardId]
   THEN 1 ELSE 0)
    + (IF /\ pageId \in DOMAIN titlesCache
          /\ wt.present
          /\ wt.text # titlesCache[pageId]
       THEN 1 ELSE 0)

\* C17: once the host's events have ended the scheduler reaches idle and
\* stays there; the scans the script's own title writes set off are finitely
\* many, since every scan from a timer decreases a natural number: it uses
\* up its timer, and the observer arms one again only for a scan that wrote
\* a title, which leaves one title fewer to substitute; and the observer's
\* scan that returns the observer to idle has substituted nothing (it left
\* every title and the counter as they were)
C17_Quiesces ==
  /\ <>[]Idle
  /\ [][events' = events /\ initPc' = initPc /\ TimerScan
          => Pending' + 2 * Unsubstituted(title', watch')
               < Pending + 2 * Unsubstituted(title, watch)]_vars
  /\ [][scanTimeout' = Off /\ ScanTimerFires
          => /\ title' = title
             /\ watch' = watch
             /\ replacedThisSession' = replacedThisSession]_vars

\* the observer is idle again after a scan from a timer substituted while it
\* was watching (the initial scan counts at most one substitution, made
\* before the observer exists)
C17_Witness ==
  /\ observing /\ enabled /\ Idle
  /\ replacedThisSession = 2
  /\ events = MaxEvents


(***************************************************************************)
(* C18: an enabled script schedules a scan for what the host delivers.     *)
(***************************************************************************)
\* C18: once init() has finished, whenever enabled is true and the host
\* changes a card's link (a tree mutation the observer is configured for),
\* the observer's timer is pending afterwards with its full delay, so that a
\* scanPage() runs after it: on every path by which enabled became true
C18_EnabledSchedules ==
  [][/\ enabled
     /\ initPc = "done"
     /\ \E u \in CardUrls : HostSetsLink(u)
     => scanTimeout' = ScanDelay]_vars


(***************************************************************************)
(* C19: visibility gating and the scroll listener's rescan.  The page is   *)
(* one whose card the host has rendered outside the viewport.              *)
(***************************************************************************)
InitBelowFold ==
  /\ titlesCache = NoTitles
  /\ enabled = TRUE
  /\ replacedThisSession = 0
  /\ processedVideoIds = [c \in ContainerSet |-> NoId]
  /\ initPc = "awaiting"
  /\ observing = FALSE
  /\ scanTimeout = Off
  /\ scrollTimeout = Off
  /\ navTimeouts = << >>
  /\ nested \in BOOLEAN
  /\ link \in CardUrls
  /\ title = FreshTitle
  /\ visible = [c \in ContainerSet |-> FALSE]
  /\ pageUrl \in PageUrls
  /\ watch = IF extractVideoId(pageUrl) = NoId THEN NoWatch ELSE FreshWatch
  /\ sent = 0
  /\ events = 0
  /\ burst = NoBurst
  /\ url = NoUrl
  /\ extracted = << >>
  /\ contextValid = TRUE
  /\ processedElements = {}
  /\ channel = GothamChannel
  /\ StorageAtInstall
  /\ WorkerIdle

SpecScroll == InitBelowFold /\ [][NextTimed]_vars

\* C19: processVideoCard on a container that is not visible changes nothing
\* (no title text or attribute, no processedVideoIds entry, no counter, no
\* message), wherever in a scan it is called; every scroll event leaves the
\* scroll timer with its full 200 ms, so that its scanPage() runs 200 ms
\* after the last one; and when that scan runs with enabled = TRUE and finds
\* a container, now visible and not recorded for the identifier V of the
\* mapping its permalink yields, whose title shows another text than V's
\* clean title, the title is V's clean title afterwards and is tagged
C19_VisibilityGate ==
  /\ [](\A c \in Scanned : \A w \in {Cur, processVideoCard(Cur, "c1")} :
          ~visible[c] => processVideoCard(w, c) = w)
  /\ [][Scrolled => scrollTimeout' = ScrollDelay]_vars
  /\ [][\A c \in Scanned :
          ( /\ scrollTimeout = 0
            /\ enabled
            /\ visible[c]
            /\ processedVideoIds[c] # cardId
            /\ cardId \in DOMAIN titlesCache
            /\ title.present
            /\ title.text # titlesCache[cardId]
            /\ ScrollTimerDue )
          => /\ title'.text = titlesCache[cardId]
             /\ title'.replaced
             /\ title'.original = title.text]_vars

\* a card that was out of view, and so left alone by the initial scan, has
\* come into view, a scroll event has been delivered and 200 ms have passed:
\* the scroll timer's scan is due on the unsubstituted card
C19_Witness ==
  /\ observing /\ enabled
  /\ visible["c1"]
  /\ link = UrlWatchA
  /\ titlesCache = TitlesAB
  /\ title = FreshTitle
  /\ processedVideoIds["c1"] = NoId
  /\ scrollTimeout = 0
  /\ scanTimeout = Off
  /\ events = 2


(***************************************************************************)
(* The GothamClean variant of the content script (the second script of the *)
(* file).  It keeps a WeakSet of the containers it has substituted instead *)
(* of a Map to identifiers, acts only on cards of the GothamChess channel, *)
(* has no visibility check and no scroll listener, scans only the outer    *)
(* containers, and observes child-list changes only.  Its watch title      *)
(* carries the attribute data-gothamclean-replaced = 'true', kept in the   *)
(* field videoId of the element's record.                                  *)
(***************************************************************************)
ReplacedTrue == <<"t","r","u","e">>

GC_Cur == [processedElements |-> processedElements] @@ Cur

isGothamChessVideo(c) == channel = GothamChannel

\* the variant's processVideoCard with the Map's test: a container is
\* skipped only while the title it shows is the clean title of its identifier
GC_processVideoCardByTitle(w, c) ==
  IF ~isGothamChessVideo(c) THEN w
  ELSE LET videoId == extractVideoId(findVideoLink(c))
           titleElement == findTitleElement(w, c)
       IN  IF videoId = NoId THEN w
           ELSE IF videoId \notin DOMAIN w.titlesCache THEN w
           ELSE IF ~titleElement.present THEN w
           ELSE IF titleElement.text = w.titlesCache[videoId] THEN w
           ELSE sendIncrement(
                  [w EXCEPT
                     !.title = [present |-> TRUE,
                                text |-> w.titlesCache[videoId],
                                original |-> titleElement.text,
                                replaced |-> TRUE],
                     !.processedElements = @ \cup {c},
                     !.replacedThisSession = @ + 1,
                     !.wrote = TRUE])

GC_processVideoCard(w, c) ==
  IF c \in w.processedElements THEN w
  ELSE IF ~isGothamChessVideo(c) THEN w
  ELSE LET videoId == extractVideoId(findVideoLink(c))
           titleElement == findTitleElement(w, c)
       IN  IF videoId = NoId THEN w
           ELSE IF videoId \notin DOMAIN w.titlesCache THEN w
           ELSE IF ~titleElement.present THEN w
           ELSE IF titleElement.text = w.titlesCache[videoId] THEN w
           ELSE sendIncrement(
                  [w EXCEPT
                     !.title = [present |-> TRUE,
                                text |-> w.titlesCache[videoId],
                                original |-> titleElement.text,
                                replaced |-> TRUE],
                     !.processedElements = @ \cup {c},
                     !.replacedThisSession = @ + 1,
                     !.wrote = TRUE])

\* the first title element that exists and carries no replaced attribute
GC_processWatchPageTitle(w) ==
  LET videoId == extractVideoId(pageUrl)
  IN  IF videoId = NoId THEN w
      ELSE IF videoId \notin DOMAIN w.titlesCache THEN w
      ELSE IF ~w.watch.present \/ w.watch.videoId # NoId THEN w
      ELSE IF w.watch.text # w.titlesCache[videoId]
           THEN sendIncrement(
                  [w EXCEPT
                     !.watch = [present |-> TRUE,
                                text |-> w.titlesCache[videoId],
                                original |-> w.watch.text,
                                videoId |-> ReplacedTrue],
                     !.wrote = TRUE])
           ELSE w

\* the containers of the variant's selectors: the outer container only
GC_scanPage(w) ==
  IF ~w.enabled THEN w
  ELSE LET card == GC_processVideoCard(w, "c1")
       IN  IF card.thrown THEN card ELSE GC_processWatchPageTitle(card)

\* processedElements = new WeakSet()
GC_clearProcessed(w) == [w EXCEPT !.processedElements = {}]

GC_Commit(w, timer, since) ==
  /\ Commit(w, timer, since)
  /\ processedElements' = w.processedElements

\* what no handler of the variant changes
GC_layout == <<nested, url, extracted, contextValid, channel, visible,
               scrollTimeout, worker>>

GC_InitFails == InitFails

GC_InitResponds(titles, en) ==
  /\ initPc = "awaiting"
  /\ initPc' = "done"
  /\ LET w0 == [GC_Cur EXCEPT !.titlesCache = titles, !.enabled = en]
         w == IF ~w0.enabled THEN w0 ELSE GC_scanPage(w0)
     IN  /\ GC_Commit([w EXCEPT !.wrote = FALSE], scanTimeout, burst)
         /\ observing' = w0.enabled
  /\ UNCHANGED <<navTimeouts, events, link, pageUrl>>
  /\ UNCHANGED GC_layout

GC_onEnabledChanged(w, ch) ==
  IF ch = NoChange THEN w
  ELSE LET w1 == [w EXCEPT !.enabled = ch[1]]
       IN  IF w1.enabled THEN GC_scanPage(GC_clearProcessed(w1)) ELSE w1

GC_onTitlesChanged(w, ch) ==
  IF ch = NoChange THEN w
  ELSE GC_scanPage(GC_clearProcessed([w EXCEPT !.titlesCache = ch[1]]))

GC_onStorageChanged(w, namespace, chEnabled, chTitles) ==
  IF namespace # "local" THEN w
  ELSE LET w1 == GC_onEnabledChanged(w, chEnabled)
       IN  IF w1.thrown THEN w1 ELSE GC_onTitlesChanged(w1, chTitles)

GC_StorageChanged(namespace, chEnabled, chTitles) ==
  /\ events < MaxEvents
  /\ events' = events + 1
  /\ GC_Commit(GC_onStorageChanged(GC_Cur, namespace, chEnabled, chTitles),
               scanTimeout, burst)
  /\ UNCHANGED <<initPc, observing, navTimeouts, link, pageUrl>>
  /\ UNCHANGED GC_layout

\* a batch of mutation records with added nodes
GC_MutationNotified == MutationNotified

\* yt-navigate-finish or popstate
GC_Navigated(ev) ==
  /\ observing
  /\ events < MaxEvents
  /\ Len(navTimeouts) < MaxNavTimers
  /\ events' = events + 1
  /\ processedElements' = GC_clearProcessed(GC_Cur).processedElements
  /\ navTimeouts' = Append(navTimeouts, NavDelay)
  /\ UNCHANGED <<titlesCache, enabled, replacedThisSession, processedVideoIds,
                 initPc, observing, scanTimeout, sent, burst, link, title,
                 pageUrl, watch>>
  /\ UNCHANGED GC_layout

\* setTimeout(scanPage, 100) of the observer comes due
GC_ScanTimerFires ==
  /\ scanTimeout # Off
  /\ GC_Commit(GC_scanPage(GC_Cur), Off, NoBurst)
  /\ UNCHANGED <<initPc, observing, navTimeouts, events, link, pageUrl>>
  /\ UNCHANGED GC_layout

\* the oldest setTimeout(scanPage, 500) of a navigation comes due
GC_NavTimerFires ==
  /\ navTimeouts # << >>
  /\ navTimeouts' = Tail(navTimeouts)
  /\ GC_Commit(GC_scanPage(GC_Cur), scanTimeout, burst)
  /\ UNCHANGED <<initPc, observing, events, link, pageUrl>>
  /\ UNCHANGED GC_layout

\* the host points a card at another video: an attribute change, which the
\* variant's observer is not configured for
GC_HostSetsLink(u) ==
  /\ events < MaxEvents
  /\ link # u
  /\ events' = events + 1
  /\ link' = u
  /\ UNCHANGED <<titlesCache, enabled, replacedThisSession, processedVideoIds,
                 initPc, observing, scanTimeout, navTimeouts, sent, burst,
                 title, pageUrl, watch, processedElements>>
  /\ UNCHANGED GC_layout

\* the host puts another channel's video into the card
GC_HostSetsChannel(ch) ==
  /\ events < MaxEvents
  /\ channel # ch
  /\ events' = events + 1
  /\ channel' = ch
  /\ UNCHANGED <<titlesCache, enabled, replacedThisSession, processedVideoIds,
                 initPc, observing, scanTimeout, scrollTimeout, navTimeouts,
                 sent, burst, processedElements>>
  /\ UNCHANGED <<nested, url, extracted, contextValid, link, title, visible,
                 pageUrl, watch, worker>>

GC_Host ==
  \/ \E u \in CardUrls : GC_HostSetsLink(u)
  \/ \E ch \in Channels : GC_HostSetsChannel(ch)
  \/ \E t \in HostTexts, told \in BOOLEAN : HostSetsTitle(t, told)
  \/ HostRemovesTitle
  \/ \E u \in PageUrls : HostSetsLocation(u)
  \/ \E t \in HostTexts, told \in BOOLEAN : HostSetsWatchTitle(t, told)

GC_Next ==
  \/ GC_InitFails
  \/ \E titles \in Mappings, en \in BOOLEAN : GC_InitResponds(titles, en)
  \/ \E ev \in StorageEvents :
       GC_StorageChanged(ev.namespace, ev.enabled, ev.titles)
  \/ GC_MutationNotified
  \/ \E ev \in {"yt-navigate-finish", "popstate"} : GC_Navigated(ev)
  \/ GC_Host
  \/ GC_ScanTimerFires
  \/ GC_NavTimerFires

\* the variant on a page of cards in the older layout
GC_Init == Init /\ ~nested

SpecGotham == GC_Init /\ [][GC_Next]_vars

\* C20 (GothamClean variant): a container of the tracked channel that the
\* script has substituted for a tracked identifier A (it is in
\* processedElements and shows A's clean title, tagged) is not skipped as
\* already processed once the host has recycled it: when the host changes
\* its permalink to another tracked identifier B, and its title to any text
\* the host renders, with no navigation event, a scanPage() run next with
\* enabled = TRUE leaves the title text equal to B's clean title
C20_RecycledResubstituted ==
  [][( /\ "c1" \in processedElements
       /\ enabled
       /\ isGothamChessVideo("c1")
       /\ title.present /\ title.replaced
       /\ cardId \in DOMAIN titlesCache
       /\ title.text = titlesCache[cardId]
       /\ \E u \in CardUrls : GC_HostSetsLink(u)
       /\ cardId' \in DOMAIN titlesCache )
     => \A t \in HostTexts :
          (GC_scanPage([GC_Cur EXCEPT !.title.text = t]).title.text)'
            = titlesCache[cardId']]_vars


(***************************************************************************)
(* C22: a mapping push rewrites what the page shows.                       *)
(***************************************************************************)
\* what a push of the mapping leaves of the cards: every entry of
\* processedVideoIds is one the handler's scan has just made, and the title
\* of a visible container whose identifier is in the new mapping shows the
\* new mapping's clean title
CardsFollowPush ==
  \A c \in Scanned :
    /\ processedVideoIds'[c] \in {NoId, cardId}
    /\ ( /\ visible[c]
         /\ cardId \in DOMAIN titlesCache'
         /\ title.present )
       => title'.text = titlesCache'[cardId]

\* what a push of the mapping leaves of the watch page's title
WatchFollowsPush ==
  (pageId \in DOMAIN titlesCache' /\ watch.present)
    => watch'.text = titlesCache'[pageId]

\* C22: when the storage listener returns from an event of the area "local"
\* that carries the mapping, delivered with enabled = TRUE and leaving it
\* TRUE, processedVideoIds holds no
\* entry from before the push, every visible container whose identifier is
\* in the new mapping (and whose title element exists) shows the clean title
\* of the new mapping, and so does the watch page's title when the page's
\* identifier is in the new mapping
C22_PushShowsNewMapping ==
  [][\A ev \in StorageEvents :
       ( /\ ev.namespace = "local"
         /\ ev.titles # NoChange
         /\ events' = events + 1
         /\ enabled /\ enabled'
         /\ StorageChanged(ev.namespace, ev.enabled, ev.titles) )
       => CardsFollowPush /\ WatchFollowsPush]_vars


(***************************************************************************)
(* C23: the watch title's tag and its text.                                *)
(***************************************************************************)
\* C23: whenever a scanPage() from a timer has run with enabled = TRUE, a
\* watch title element that carries data-honestlevy-video-id = V, on a page
\* whose address yields V, with V in the mapping, shows V's clean title (the
\* scan after the host has rendered the title again, as on returning to the
\* video, included)
C23_TaggedWatchIsClean ==
  [][( /\ enabled
       /\ events' = events
       /\ watch'.present
       /\ watch'.videoId # NoId
       /\ watch'.videoId = pageId
       /\ pageId \in DOMAIN titlesCache
       /\ TimerScan )
     => watch'.text = titlesCache[pageId]]_vars


(***************************************************************************)
(* C24: the session counter.                                               *)
(***************************************************************************)
\* C24: in every state replacedThisSession equals the number of
\* incrementReplacedCount messages the instance has sent (each carries count
\* 1, and in a live context one is sent with every substitution of a card's
\* or the watch page's title, so that this is also the number of
\* substitutions performed)
C24_CounterMatchesMessages == replacedThisSession = sent


(***************************************************************************)
(* The background service worker, chrome.storage.local and the popup,      *)
(* together with a content script on a page the host leaves alone.  The    *)
(* worker's handlers are asynchronous: a storage get is served by the      *)
(* browser at one moment and its callback runs in the worker at a later    *)
(* one, and other handlers run in between.                                 *)
(***************************************************************************)
\* the variables of the content script and its page
content == <<titlesCache, enabled, replacedThisSession, processedVideoIds,
             initPc, observing, scanTimeout, scrollTimeout, navTimeouts,
             nested, link, title, visible, pageUrl, watch, sent, events,
             burst, url, extracted, contextValid, processedElements, channel>>

\* result.titles || {}
storedTitlesOrEmpty ==
  IF storedTitles = NoStored THEN NoTitles ELSE storedTitles[1]

\* result.enabled !== false
storedEnabledOrDefault == storedEnabled # <<FALSE>>

\* onMessage, type incrementReplacedCount: a message the content script has
\* sent arrives, and the handler issues chrome.storage.local.get
IncrementReceived ==
  /\ received < sent
  /\ received' = received + 1
  /\ incGets' = incGets + 1
  /\ UNCHANGED <<storedTitles, storedEnabled, replacedCount, incRead,
                 response, changeLog>>
  /\ UNCHANGED content

\* the browser serves one of the gets: result.replacedCount is the value
\* stored at this moment, and the callback is queued with it
IncrementGetServed ==
  /\ incGets > 0
  /\ incGets' = incGets - 1
  /\ incRead' = Append(incRead, replacedCount)
  /\ UNCHANGED <<storedTitles, storedEnabled, replacedCount, received,
                 response, changeLog>>
  /\ UNCHANGED content

\* the callback of the get: newCount = (result.replacedCount || 0) +
\* (message.count || 1), with count 1 in every message the content script
\* sends, and chrome.storage.local.set({ replacedCount: newCount })
IncrementCallback ==
  /\ incRead # << >>
  /\ LET newCount == Head(incRead) + 1
     IN  replacedCount' = newCount
  /\ incRead' = Tail(incRead)
  /\ UNCHANGED <<storedTitles, storedEnabled, received, incGets, response,
                 changeLog>>
  /\ UNCHANGED content

\* onMessage, type getTitles: the get of titles and enabled is served and its
\* callback sends the response, whose content is what was stored when the
\* get was served
GetTitlesServed ==
  /\ initPc = "awaiting"
  /\ response = NoResponse
  /\ response' = <<[titles |-> storedTitlesOrEmpty,
                    enabled |-> storedEnabledOrDefault]>>
  /\ UNCHANGED <<storedTitles, storedEnabled, replacedCount, received,
                 incGets, incRead, changeLog>>
  /\ UNCHANGED content

\* fetchAndCacheTitles (on install, startup, alarm or the popup's refresh)
\* stores the mapping m it has fetched; lastUpdated changes every time, so
\* an onChanged event follows, carrying titles when the mapping is a new one
fetchAndCacheTitles(m) ==
  /\ Len(changeLog) < MaxEvents
  /\ storedTitles' = <<m>>
  /\ changeLog' =
       Append(changeLog,
              [enabled |-> NoChange,
               titles |-> IF storedTitles = <<m>> THEN NoChange ELSE <<m>>])
  /\ UNCHANGED <<storedEnabled, replacedCount, received, incGets, incRead,
                 response>>
  /\ UNCHANGED content

\* the popup's toggle: chrome.storage.local.set({ enabled })
EnableToggled(b) ==
  /\ Len(changeLog) < MaxEvents
  /\ storedEnabled # <<b>>
  /\ storedEnabled' = <<b>>
  /\ changeLog' = Append(changeLog, [enabled |-> <<b>>, titles |-> NoChange])
  /\ UNCHANGED <<storedTitles, replacedCount, received, incGets, incRead,
                 response>>
  /\ UNCHANGED content

\* the content script receives the response to its getTitles request
ResponseDelivered ==
  /\ response # NoResponse
  /\ InitResponds(response[1].titles, response[1].enabled)

\* the content script receives the oldest onChanged event it has not had yet
\* (it has had `events` of them)
ChangeDelivered ==
  /\ events < Len(changeLog)
  /\ LET ev == changeLog[events + 1]
     IN  StorageChanged("local", ev.enabled, ev.titles)

SystemNext ==
  \/ IncrementReceived
  \/ IncrementGetServed
  \/ IncrementCallback
  \/ GetTitlesServed
  \/ \E m \in Mappings : fetchAndCacheTitles(m)
  \/ \E b \in BOOLEAN : EnableToggled(b)
  \/ ResponseDelivered
  \/ InitFails
  \/ ChangeDelivered
  \/ ScanTimerFires

SpecSystem == Init /\ [][SystemNext]_vars

\* C21: whenever the worker has no incrementReplacedCount message in hand
\* (every get it issued has been served and every callback has run), the
\* stored replacedCount is its initial value 0 plus the number of messages
\* received, each of which carries count 1
C21_NoIncrementLost ==
  (incGets = 0 /\ incRead = << >>) => replacedCount = received


\* C25: once the startup response and every onChanged event have been
\* delivered to the content script, its titlesCache and enabled flag are the
\* titles and the enabled setting held in storage, whatever the order in
\* which the response and the events arrived
C25_CacheMatchesStorage ==
  (initPc = "done" /\ events = Len(changeLog))
    => /\ titlesCache = storedTitlesOrEmpty
       /\ enabled = storedEnabledOrDefault

====
